---- MODULE Spec2Model ----
(***************************************************************************)
(* The webhook dispatcher worker of fluxpoint: one run of                  *)
(* runDispatcherOnce (lease a batch, deliver every event with in-process   *)
(* retry, report each outcome), together with the pure classification      *)
(* functions of the dispatcher module.                                     *)
(***************************************************************************)
EXTENDS Integers, Sequences, FiniteSets, TLC

VARIABLES
    config,       \* DispatcherConfigService: immutable after construction
    leaseResp,    \* environment: what store.lease answers in this run
    target,       \* environment: the results the target's HTTP client can give
    phase,        \* position of runDispatcherOnce
    events,       \* leaseResp.events once leased
    delivery,     \* per leased event: position and state of its deliverOne fiber
    reports,      \* the ReportRequests handed to store.report, in order
    reportFailures, \* event ids whose store.report failed (logged and swallowed)
    cin,          \* classification run: the status under test
    cout,         \* classification run: the computed classification
    proc,         \* the process around the dispatcher: loop counters, signal, exit
    store,        \* store client run: one lease or report call and its HTTP requests
    fleet         \* several workers on one event: the clock, the store's lease, each worker

vars == <<config, leaseResp, target, phase, events, delivery, reports,
          reportFailures, cin, cout, proc, store, fleet>>

----------------------------------------------------------------------------
(* Bounds of the model *)

MaxBatch == 2
MaxRetry == 2
MaxConcurrency == 2
MaxAttemptsBound == 3
MaxStatus == 700
MaxLeaseCalls == 3
MaxTicks == 3
MaxClockTicks == 6
MaxPollMs == 40

----------------------------------------------------------------------------
(* Configuration values *)

PollIntervalMs == 5000
RequestTimeoutMs == 1000
RetryBaseMs == 1000
\* the extra second of the shutdown deadline, requestTimeoutMs + 1 s
HardDeadlineExtraMs == 1000

----------------------------------------------------------------------------
(* Values *)

Null == "null"
NullStatus == 0

\* Statuses the target answers with in single-event runs
RichStatuses == {100, 200, 299, 304, 404, 408, 429, 500, 599}
\* Statuses carried by a ResponseError of the HTTP client
ErrorStatuses == {404, 500}
\* Statuses the target answers with in batch runs
CoarseStatuses == {200}

Response(s) == [tag |-> "Response", status |-> s]
RequestError == [tag |-> "RequestError", status |-> NullStatus]
ResponseError(s) == [tag |-> "ResponseError", status |-> s]
Never == [tag |-> "Never", status |-> NullStatus]

RichResults ==
    {Response(s) : s \in RichStatuses} \cup {RequestError, Never}
        \cup {ResponseError(s) : s \in ErrorStatuses}

CoarseResults == {Response(s) : s \in CoarseStatuses} \cup {Never}

RECURSIVE Pow2(_)
Pow2(n) == IF n = 0 THEN 1 ELSE 2 * Pow2(n - 1)

----------------------------------------------------------------------------
(* Classifier: pure functions *)

\* mutant: 429 forgotten
isRetryableStatus_No429(status) ==
    status >= 500 \/ status = 408

isRetryableStatus(status) ==
    status >= 500 \/ status = 408 \/ status = 429

\* mutant: redirects counted as success
classifyHttpStatus_Upto399(status) ==
    IF status >= 200 /\ status < 400 THEN "delivered"
    ELSE IF isRetryableStatus(status) THEN "retry"
    ELSE "dead"

classifyHttpStatus(status) ==
    IF status >= 200 /\ status < 300 THEN "delivered"
    ELSE IF isRetryableStatus(status) THEN "retry"
    ELSE "dead"

\* DeliveryResult: Either<response, error>
Right(s) == [either |-> "Right", tag |-> "Response", status |-> s]
Left(tag, s) == [either |-> "Left", tag |-> tag, status |-> s]
NoResult == [either |-> "None", tag |-> Null, status |-> NullStatus]

\* mutant: every failure is terminal, the attempt cap is not consulted
resolveOutcome_NoCapCheck(result, currentAttempts, maxAttempts) ==
    IF result.either = "Right" THEN classifyHttpStatus(result.status)
    ELSE "dead"

\* mutant: the cap compares the count before this delivery
resolveOutcome_OffByOne(result, currentAttempts, maxAttempts) ==
    IF result.either = "Right" THEN classifyHttpStatus(result.status)
    ELSE IF currentAttempts >= maxAttempts THEN "dead"
    ELSE "retry"

\* mutant: the attempt limit is left to the store
resolveOutcome_StoreDecides(result, currentAttempts, maxAttempts) ==
    IF result.either = "Right" THEN classifyHttpStatus(result.status)
    ELSE "retry"

\* mutant: the attempt cap is applied to responses with a retryable status too
resolveOutcome_CapOnResponse(result, currentAttempts, maxAttempts) ==
    IF currentAttempts + 1 >= maxAttempts
          /\ (result.either = "Left" \/ isRetryableStatus(result.status))
    THEN "dead"
    ELSE IF result.either = "Right" THEN classifyHttpStatus(result.status)
    ELSE "retry"

resolveOutcome(result, currentAttempts, maxAttempts) ==
    IF result.either = "Right" THEN classifyHttpStatus(result.status)
    ELSE IF currentAttempts + 1 >= maxAttempts THEN "dead"
    ELSE "retry"

classifyError(error) ==
    IF error.tag = "TimeoutException" THEN "timeout"
    ELSE IF error.tag = "RequestError" THEN "network"
    ELSE IF error.tag = "ResponseError" THEN "invalid_response"
    ELSE "unexpected"

\* mutant: a timeout ends the retry sequence
isRetryableFailure_TimeoutFinal(error) ==
    IF error.tag = "TimeoutException" THEN FALSE
    ELSE IF error.tag = "RetryableStatusError" THEN TRUE
    ELSE IF error.tag = "RequestError" THEN TRUE
    ELSE IF error.tag = "ResponseError" THEN isRetryableStatus(error.status)
    ELSE FALSE

isRetryableFailure(error) ==
    IF error.tag = "TimeoutException" THEN TRUE
    ELSE IF error.tag = "RetryableStatusError" THEN TRUE
    ELSE IF error.tag = "RequestError" THEN TRUE
    ELSE IF error.tag = "ResponseError" THEN isRetryableStatus(error.status)
    ELSE FALSE

\* mutant: every response that is not a success counts as retryable
isRetryableResult_AnyErrorStatus(result) ==
    IF result.either = "Right" THEN result.status >= 400
    ELSE IF result.tag = "TimeoutException" THEN TRUE
    ELSE isRetryableFailure(result)

isRetryableResult(result) ==
    IF result.either = "Right" THEN isRetryableStatus(result.status)
    ELSE IF result.tag = "TimeoutException" THEN TRUE
    ELSE isRetryableFailure(result)

----------------------------------------------------------------------------
(* Time *)

\* new Date(ms).toISOString(): the timestamp as text, seconds before
\* milliseconds; ISO timestamps of the same length order as their text does
toISO(ms) == <<ms \div 1000, ms % 1000>>

isoLeq(a, b) == a[1] < b[1] \/ (a[1] = b[1] /\ a[2] <= b[2])

\* the clock is followed only in the timed runs
Timed == proc.state = "timed"

\* mutant: the upper end is included
nextIntBetween_Inclusive(min, max) == min..max

\* Random.nextIntBetween(min, max): an integer from min up to max - 1
nextIntBetween(min, max) == min..(max - 1)

\* Math.floor(baseMs * 0.2)
jitterRange(baseMs) == (baseMs * 2) \div 10

\* sleepWithJitter(baseMs): the durations the sleep can last
sleepWithJitter(baseMs) ==
    {baseMs + jitter :
        jitter \in nextIntBetween(0 - jitterRange(baseMs), jitterRange(baseMs) + 1)}

\* Schedule.exponential(1000 ms): the delays the schedule can give before
\* retry k
retryDelays(k) == {RetryBaseMs * Pow2(k - 1)}

\* Effect.timeoutFail: a call that is not answered ends when requestTimeoutMs
\* has elapsed, an answer arrives before that
timeoutFail(r, elapsed, requestTimeoutMs) ==
    IF r.tag = "Never" THEN elapsed >= requestTimeoutMs
    ELSE elapsed < requestTimeoutMs

\* mutant: the request of an attempt abandoned by its timeout stays in flight
callsOpenAfter_TimeoutLeaks(open, r) ==
    IF r.tag = "Never" THEN open ELSE open - 1

\* the call in flight has ended: answered, failed, or interrupted by timeoutFail
callsOpenAfter(open, r) == open - 1

----------------------------------------------------------------------------
(* DeliveryEngine *)

\* mutant: the status of a failed response leaks into the error record
buildAttempt_KeepStatus(result, leased, startedAt, finishedAt) ==
    IF result.either = "Left"
    THEN [started_at |-> startedAt,
          finished_at |-> finishedAt,
          request_headers |-> leased.headers,
          request_body |-> leased.payload,
          response_status |-> result.status,
          error_kind |-> classifyError(result),
          error_message |-> IF result.tag = "TimeoutException"
                            THEN "Request timed out" ELSE result.tag]
    ELSE [started_at |-> startedAt,
          finished_at |-> finishedAt,
          request_headers |-> leased.headers,
          request_body |-> leased.payload,
          response_status |-> result.status,
          error_kind |-> Null,
          error_message |-> Null]

\* mutant: the payload is recorded in the place of the headers
buildAttempt_BodyAsHeaders(result, leased, startedAt, finishedAt) ==
    IF result.either = "Left"
    THEN [started_at |-> startedAt,
          finished_at |-> finishedAt,
          request_headers |-> leased.payload,
          request_body |-> leased.payload,
          response_status |-> NullStatus,
          error_kind |-> classifyError(result),
          error_message |-> IF result.tag = "TimeoutException"
                            THEN "Request timed out" ELSE result.tag]
    ELSE [started_at |-> startedAt,
          finished_at |-> finishedAt,
          request_headers |-> leased.payload,
          request_body |-> leased.payload,
          response_status |-> result.status,
          error_kind |-> Null,
          error_message |-> Null]

buildAttempt(result, leased, startedAt, finishedAt) ==
    IF result.either = "Left"
    THEN [started_at |-> startedAt,
          finished_at |-> finishedAt,
          request_headers |-> leased.headers,
          request_body |-> leased.payload,
          response_status |-> NullStatus,
          error_kind |-> classifyError(result),
          error_message |-> IF result.tag = "TimeoutException"
                            THEN "Request timed out" ELSE result.tag]
    ELSE [started_at |-> startedAt,
          finished_at |-> finishedAt,
          request_headers |-> leased.headers,
          request_body |-> leased.payload,
          response_status |-> result.status,
          error_kind |-> Null,
          error_message |-> Null]

\* mutant: every status from 400 up is retried
executeOnce_RetryAll4xx(r) ==
    IF r.tag = "Never"
    THEN [ok |-> FALSE, tag |-> "TimeoutException", status |-> NullStatus]
    ELSE IF r.tag = "Response"
    THEN IF r.status >= 400
         THEN [ok |-> FALSE, tag |-> "RetryableStatusError", status |-> r.status]
         ELSE [ok |-> TRUE, tag |-> "Response", status |-> r.status]
    ELSE [ok |-> FALSE, tag |-> r.tag, status |-> r.status]

\* One client.execute bounded by requestTimeoutMs, then the status filter:
\* r is what the HTTP client produces for this call.
executeOnce(r) ==
    IF r.tag = "Never"
    THEN [ok |-> FALSE, tag |-> "TimeoutException", status |-> NullStatus]
    ELSE IF r.tag = "Response"
    THEN IF isRetryableStatus(r.status)
         THEN [ok |-> FALSE, tag |-> "RetryableStatusError", status |-> r.status]
         ELSE [ok |-> TRUE, tag |-> "Response", status |-> r.status]
    ELSE [ok |-> FALSE, tag |-> r.tag, status |-> r.status]

\* mutant: one recurrence too many
retrySchedule_OffByOne(recurs, error, immediateRetryMax) ==
    recurs <= immediateRetryMax /\ isRetryableFailure(error)

\* exponential(1000) intersect recurs(immediateRetryMax), whileInput(isRetryableFailure):
\* whether the schedule grants one more recurrence after `recurs` of them.
retrySchedule(recurs, error, immediateRetryMax) ==
    recurs < immediateRetryMax /\ isRetryableFailure(error)

\* mutant: the catchAll is missing, a retryable status stays a failure
toDeliveryResult_StatusAsError(out) ==
    IF out.ok THEN Right(out.status)
    ELSE Left(out.tag, out.status)

\* catchAll after the retry, then Effect.either
toDeliveryResult(out) ==
    IF out.ok THEN Right(out.status)
    ELSE IF out.tag = "RetryableStatusError" THEN Right(out.status)
    ELSE Left(out.tag, out.status)

\* mutant: the two timestamps are passed in the wrong order
makeReport_SwappedTimes(result, leased, startedAt, finishedAt) ==
    [worker_id |-> config.workerId,
     event_id |-> leased.id,
     outcome |-> resolveOutcome(result, leased.attempts, config.maxAttempts),
     next_attempt_at |-> Null,
     retryable |-> isRetryableResult(result),
     attempt |-> buildAttempt(result, leased, finishedAt, startedAt)]

\* mutant: the retries made inside this delivery count towards the cap
makeReport_CountsRetries(result, leased, startedAt, finishedAt) ==
    [worker_id |-> config.workerId,
     event_id |-> leased.id,
     outcome |-> resolveOutcome(result,
                                leased.attempts + delivery[leased.id].recurs,
                                config.maxAttempts),
     next_attempt_at |-> Null,
     retryable |-> isRetryableResult(result),
     attempt |-> buildAttempt(result, leased, startedAt, finishedAt)]

makeReport(result, leased, startedAt, finishedAt) ==
    [worker_id |-> config.workerId,
     event_id |-> leased.id,
     outcome |-> resolveOutcome(result, leased.attempts, config.maxAttempts),
     next_attempt_at |-> Null,
     retryable |-> isRetryableResult(result),
     attempt |-> buildAttempt(result, leased, startedAt, finishedAt)]

----------------------------------------------------------------------------
(* State machine *)

Events == 1..Len(events)

InFlight == {i \in Events : delivery[i].pc \in {"executing", "backoff", "reporting"}}

NewDelivery ==
    [pc |-> "pending", recurs |-> 0, calls |-> <<>>, result |-> NoResult,
     open |-> 0,        \* target HTTP calls of this delivery that are in flight
     startedAt |-> 0,   \* clock reading at the start of deliverOne, ms
     callAt |-> 0,      \* clock reading when the call in flight was sent
     waitUntil |-> 0,   \* clock reading at which the backoff sleep ends
     endedAt |-> 0]     \* clock reading after the last attempt

LeasedEvents(n) == [1..n -> 0..(MaxAttemptsBound - 1)]

MakeEvents(f, n) ==
    [i \in 1..n |-> [id |-> i, attempts |-> f[i],
                     headers |-> <<"headers", i>>, payload |-> <<"payload", i>>]]

LeaseOk(evs) == [ok |-> TRUE, events |-> evs, error |-> Null]
LeaseFail(e) == [ok |-> FALSE, events |-> <<>>, error |-> e]

StoreErrors == {"NetworkError", "ApiError", "ParseError"}

\* what store.report answers: success or one of the store errors
ReportAnswers == {"ok"} \cup StoreErrors

\* the defaults of configFromEnv
DefaultBatchSize == 50
DefaultConcurrency == 10
DefaultLeaseMs == 30000
DefaultRequestTimeoutMs == 10000
DefaultImmediateRetryMax == 2
DefaultMaxAttempts == 10

Configs ==
    [workerId : {"w1"},
     concurrency : 1..MaxConcurrency,
     immediateRetryMax : 0..MaxRetry,
     maxAttempts : 1..MaxAttemptsBound,
     pollIntervalMs : {PollIntervalMs},
     requestTimeoutMs : {RequestTimeoutMs},
     internalApiToken : {Null},
     leaseMs : {DefaultLeaseMs}]

NoExit == 0 - 1

\* the process state: `state` is "once" when runDispatcherOnce is run alone,
\* otherwise the state of main.ts's program
NewProc(state) ==
    [state |-> state,
     leaseCalls |-> 1,        \* store.lease calls issued so far
     failedCycles |-> 0,      \* consecutive poll cycles that failed
     sleepFor |-> 0,          \* base of the current poll sleep, ms
     signalAt |-> "none",     \* where the dispatcher was when the signal came
     signals |-> 0,           \* SIGINT / SIGTERM signals received so far
     sinceSignal |-> 0,       \* ms elapsed since the signal
     sleepMs |-> 0,           \* duration of the current poll sleep, ms
     now |-> 0,               \* Clock.currentTimeMillis, ms since the run began
     failure |-> Null,        \* the error runDispatcherOnce failed with
     sleeps |-> 0,            \* poll sleeps started so far
     env |-> <<>>,            \* process.env as read by the config loader
     exitCode |-> NoExit]

NoBody == [shape |-> Null, code |-> Null, items |-> <<>>]

\* the result of a store call: the decoded response or a CoreError
StoreResult(tag, body) == [tag |-> tag, body |-> body]
NoStoreResult == StoreResult(Null, NoBody)

\* no store call is being followed
NoStore ==
    [op |-> Null, pc |-> "idle", requests |-> 0, replies |-> <<>>,
     waits |-> <<>>, result |-> NoStoreResult, sent |-> <<>>]

NoClass == [outcome |-> Null, retryable |-> FALSE]

\* no fleet of workers is being followed
NoFleet ==
    [now |-> 0, holder |-> Null, expiresAt |-> 0, settled |-> FALSE,
     workers |-> <<>>]

InitIdle ==
    /\ phase = "lease"
    /\ events = <<>>
    /\ delivery = <<>>
    /\ reports = <<>>
    /\ reportFailures = {}
    /\ cin = 0
    /\ cout = NoClass
    /\ fleet = NoFleet
    /\ proc = NewProc("once")
    /\ store = NoStore

\* A run with one leased event, any lifetime attempt count, and the full
\* range of target results
InitSingle ==
    /\ config \in {c \in Configs : c.concurrency = 1}
    /\ target = RichResults
    /\ \E f \in LeasedEvents(1) : leaseResp = LeaseOk(MakeEvents(f, 1))

\* A run with a batch of fresh events (or an empty or failing lease), any
\* concurrency, and a target that answers 200 or does not answer
InitBatch ==
    /\ config \in Configs
    /\ target = CoarseResults
    /\ \/ \E e \in StoreErrors : leaseResp = LeaseFail(e)
       \/ \E n \in (0..MaxBatch) \ {1} :
              leaseResp = LeaseOk(MakeEvents([i \in 1..n |-> 0], n))

Init ==
    /\ InitSingle \/ InitBatch
    /\ InitIdle

\* mutant: a failing store.lease is treated as an empty batch
Lease_SwallowsError ==
    /\ phase = "lease"
    /\ IF leaseResp.ok
       THEN /\ events' = leaseResp.events
            /\ delivery' = [i \in 1..Len(leaseResp.events) |-> NewDelivery]
            /\ phase' = IF Len(leaseResp.events) = 0 THEN "done" ELSE "deliver"
            /\ UNCHANGED proc
       ELSE /\ phase' = "done"
            /\ UNCHANGED <<events, delivery, proc>>
    /\ UNCHANGED <<fleet, config, leaseResp, target, reports, reportFailures, cin,
                   cout, store>>

\* runDispatcherOnce: store.lease; its failure is the failure of the run
Lease ==
    /\ phase = "lease"
    /\ IF leaseResp.ok
       THEN /\ events' = leaseResp.events
            /\ delivery' = [i \in 1..Len(leaseResp.events) |-> NewDelivery]
            /\ phase' = IF Len(leaseResp.events) = 0 THEN "done" ELSE "deliver"
            /\ UNCHANGED proc
       ELSE /\ phase' = "failed"
            /\ proc' = [proc EXCEPT !.failure = leaseResp.error]
            /\ UNCHANGED <<events, delivery>>
    /\ UNCHANGED <<fleet, config, leaseResp, target, reports, reportFailures, cin,
                   cout, store>>

\* mutant: forEach without the concurrency option
StartDelivery_Unbounded(i) ==
    /\ phase = "deliver"
    /\ delivery[i].pc = "pending"
    /\ \A j \in 1..(i - 1) : delivery[j].pc # "pending"
    /\ delivery' = [delivery EXCEPT ![i] =
            [@ EXCEPT !.pc = "executing", !.open = @ + 1,
                      !.startedAt = proc.now, !.callAt = proc.now]]
    /\ UNCHANGED <<fleet, config, leaseResp, target, phase, events, reports,
                   reportFailures, cin, cout, proc, store>>

\* deliverBatch: Effect.forEach starts the events in order, at most
\* config.concurrency at a time
StartDelivery(i) ==
    /\ phase = "deliver"
    /\ delivery[i].pc = "pending"
    /\ \A j \in 1..(i - 1) : delivery[j].pc # "pending"
    /\ Cardinality(InFlight) < config.concurrency
    /\ delivery' = [delivery EXCEPT ![i] =
            [@ EXCEPT !.pc = "executing", !.open = @ + 1,
                      !.startedAt = proc.now, !.callAt = proc.now]]
    /\ UNCHANGED <<fleet, config, leaseResp, target, phase, events, reports,
                   reportFailures, cin, cout, proc, store>>

\* mutant: a delivery that ends in a failure fails the whole batch
Attempt_AbortOnFailure(i, r) ==
    /\ phase = "deliver"
    /\ delivery[i].pc = "executing"
    /\ Timed => timeoutFail(r, proc.now - delivery[i].callAt, config.requestTimeoutMs)
    /\ LET out == executeOnce(r)
           d == [delivery[i] EXCEPT !.calls = Append(@, r),
                                    !.open = callsOpenAfter(@, r)]
       IN IF ~out.ok /\ retrySchedule(d.recurs, out, config.immediateRetryMax)
          THEN /\ \E w \in retryDelays(d.recurs + 1) :
                    delivery' = [delivery EXCEPT ![i] =
                        [d EXCEPT !.pc = "backoff", !.recurs = @ + 1,
                                  !.waitUntil = proc.now + w]]
               /\ UNCHANGED <<reports, phase>>
          ELSE LET result == toDeliveryResult(out)
               IN IF result.either = "Left"
                  THEN /\ delivery' = [delivery EXCEPT ![i] =
                              [d EXCEPT !.result = result, !.endedAt = proc.now]]
                       /\ phase' = "failed"
                       /\ UNCHANGED reports
                  ELSE /\ delivery' = [delivery EXCEPT ![i] =
                              [d EXCEPT !.pc = "reporting", !.result = result,
                                        !.endedAt = proc.now]]
                       /\ reports' = Append(reports,
                              makeReport(result, events[i], toISO(d.startedAt),
                                         toISO(proc.now)))
                       /\ UNCHANGED phase
    /\ UNCHANGED <<fleet, config, leaseResp, target, events, reportFailures,
                   cin, cout, proc, store>>

\* mutant: a retry does not advance the recurrence count of the schedule
Attempt_RetryUncounted(i, r) ==
    /\ phase = "deliver"
    /\ delivery[i].pc = "executing"
    /\ Timed => timeoutFail(r, proc.now - delivery[i].callAt, config.requestTimeoutMs)
    /\ LET out == executeOnce(r)
           d == [delivery[i] EXCEPT !.calls = Append(@, r),
                                    !.open = callsOpenAfter(@, r)]
       IN IF ~out.ok /\ retrySchedule(d.recurs, out, config.immediateRetryMax)
          THEN /\ \E w \in retryDelays(d.recurs + 1) :
                    delivery' = [delivery EXCEPT ![i] =
                        [delivery[i] EXCEPT !.pc = "backoff",
                                            !.open = callsOpenAfter(@, r),
                                            !.waitUntil = proc.now + w]]
               /\ UNCHANGED reports
          ELSE LET result == toDeliveryResult(out)
               IN /\ delivery' = [delivery EXCEPT ![i] =
                         [d EXCEPT !.pc = "reporting", !.result = result,
                                   !.endedAt = proc.now]]
                  /\ reports' = Append(reports,
                         makeReport(result, events[i], toISO(d.startedAt),
                                    toISO(proc.now)))
    /\ UNCHANGED <<fleet, config, leaseResp, target, phase, events, reportFailures,
                   cin, cout, proc, store>>

\* deliverOne: one executeOnce completes with r; the retry schedule decides;
\* when the retry sequence ends the report is built and handed to store.report
Attempt(i, r) ==
    /\ phase = "deliver"
    /\ delivery[i].pc = "executing"
    /\ Timed => timeoutFail(r, proc.now - delivery[i].callAt, config.requestTimeoutMs)
    /\ LET out == executeOnce(r)
           d == [delivery[i] EXCEPT !.calls = Append(@, r),
                                    !.open = callsOpenAfter(@, r)]
       IN IF ~out.ok /\ retrySchedule(d.recurs, out, config.immediateRetryMax)
          THEN /\ \E w \in retryDelays(d.recurs + 1) :
                    delivery' = [delivery EXCEPT ![i] =
                        [d EXCEPT !.pc = "backoff", !.recurs = @ + 1,
                                  !.waitUntil = proc.now + w]]
               /\ UNCHANGED reports
          ELSE LET result == toDeliveryResult(out)
               IN /\ delivery' = [delivery EXCEPT ![i] =
                         [d EXCEPT !.pc = "reporting", !.result = result,
                                   !.endedAt = proc.now]]
                  /\ reports' = Append(reports,
                         makeReport(result, events[i], toISO(d.startedAt),
                                    toISO(proc.now)))
    /\ UNCHANGED <<fleet, config, leaseResp, target, phase, events, reportFailures,
                   cin, cout, proc, store>>

\* mutant: the backoff sleep is not interruptible
BackoffDone_IgnoresInterrupt(i) ==
    /\ delivery[i].pc = "backoff"
    /\ Timed => proc.now >= delivery[i].waitUntil
    /\ delivery' = [delivery EXCEPT ![i] =
            [@ EXCEPT !.pc = "executing", !.open = @ + 1, !.callAt = proc.now]]
    /\ UNCHANGED <<fleet, config, leaseResp, target, phase, events, reports,
                   reportFailures, cin, cout, proc, store>>

\* the backoff sleep of the retry schedule elapses
BackoffDone(i) ==
    /\ phase = "deliver"
    /\ delivery[i].pc = "backoff"
    /\ Timed => proc.now >= delivery[i].waitUntil
    /\ delivery' = [delivery EXCEPT ![i] =
            [@ EXCEPT !.pc = "executing", !.open = @ + 1, !.callAt = proc.now]]
    /\ UNCHANGED <<fleet, config, leaseResp, target, phase, events, reports,
                   reportFailures, cin, cout, proc, store>>

\* mutant: a failing store.report fails the poll cycle
ReportReturn_Propagates(i, res) ==
    /\ phase = "deliver"
    /\ delivery[i].pc = "reporting"
    /\ delivery' = [delivery EXCEPT ![i].pc = "done"]
    /\ reportFailures' = IF res = "ok" THEN reportFailures
                         ELSE reportFailures \cup {events[i].id}
    /\ phase' = IF res = "ok" THEN phase ELSE "failed"
    /\ UNCHANGED <<fleet, config, leaseResp, target, events, reports, cin, cout, proc,
                   store>>

\* store.report returns; a failure is logged and swallowed
ReportReturn(i, res) ==
    /\ phase = "deliver"
    /\ delivery[i].pc = "reporting"
    /\ delivery' = [delivery EXCEPT ![i].pc = "done"]
    /\ reportFailures' = IF res = "ok" THEN reportFailures
                         ELSE reportFailures \cup {events[i].id}
    /\ UNCHANGED <<fleet, config, leaseResp, target, phase, events, reports, cin,
                   cout, proc, store>>

\* mutant: the batch completes when the first delivery is done
BatchComplete_AnyDone ==
    /\ phase = "deliver"
    /\ \E i \in 1..Len(events) : delivery[i].pc = "done"
    /\ phase' = "done"
    /\ UNCHANGED <<fleet, config, leaseResp, target, events, delivery, reports,
                   reportFailures, cin, cout, proc, store>>

\* Effect.forEach has joined every delivery
BatchComplete ==
    /\ phase = "deliver"
    /\ \A i \in Events : delivery[i].pc = "done"
    /\ phase' = "done"
    /\ UNCHANGED <<fleet, config, leaseResp, target, events, delivery, reports,
                   reportFailures, cin, cout, proc, store>>

\* Fiber.interrupt from the signal handler: every fiber stops where it is
Cancel ==
    /\ phase \in {"lease", "deliver"}
    /\ phase' = "interrupted"
    /\ UNCHANGED <<fleet, config, leaseResp, target, events, delivery, reports,
                   reportFailures, cin, cout, proc, store>>

Next ==
    \/ Lease
    \/ \E i \in Events : StartDelivery(i)
    \/ \E i \in Events : \E r \in target : Attempt(i, r)
    \/ \E i \in Events : BackoffDone(i)
    \/ \E i \in Events : \E res \in ReportAnswers : ReportReturn(i, res)
    \/ BatchComplete
    \/ Cancel

Spec == Init /\ [][Next]_vars

----------------------------------------------------------------------------
(* Classification run: the pure functions applied to every status *)

InitClassify ==
    /\ config \in {c \in Configs : c.concurrency = 1 /\ c.immediateRetryMax = 0
                                    /\ c.maxAttempts = 1}
    /\ leaseResp = LeaseOk(<<>>)
    /\ target = {}
    /\ phase = "classify"
    /\ events = <<>>
    /\ delivery = <<>>
    /\ reports = <<>>
    /\ reportFailures = {}
    /\ cin \in 0..MaxStatus
    /\ cout = NoClass
    /\ fleet = NoFleet
    /\ proc = NewProc("once")
    /\ store = NoStore

Classify ==
    /\ phase = "classify"
    /\ cout = NoClass
    /\ cout' = [outcome |-> classifyHttpStatus(cin),
                retryable |-> isRetryableStatus(cin)]
    /\ UNCHANGED <<fleet, config, leaseResp, target, phase, events, delivery, reports,
                   reportFailures, cin, proc, store>>

NextClassify == Classify

SpecClassify == InitClassify /\ [][NextClassify]_vars

----------------------------------------------------------------------------
(* runDispatcher under main.ts: the poll loop, the signal and the exit *)

\* what store.lease answers in a poll cycle of the loop
LoopLeaseAnswers ==
    {LeaseFail(e) : e \in StoreErrors}
        \cup {LeaseOk(<<>>), LeaseOk(MakeEvents([i \in 1..1 |-> 0], 1))}

\* the poll interval is scaled down to 5 ms
InitLoop ==
    /\ \E c \in Configs :
          /\ c.concurrency = 1 /\ c.immediateRetryMax = 1
          /\ c.maxAttempts = MaxAttemptsBound
          /\ config = [c EXCEPT !.pollIntervalMs = PollIntervalMs \div 1000]
    /\ target = CoarseResults
    /\ leaseResp \in LoopLeaseAnswers
    /\ phase = "lease"
    /\ events = <<>>
    /\ delivery = <<>>
    /\ reports = <<>>
    /\ reportFailures = {}
    /\ cin = 0
    /\ cout = NoClass
    /\ fleet = NoFleet
    /\ proc = NewProc("running")
    /\ store = NoStore

\* mutant: the catchAll around runDispatcherOnce is missing, a failed cycle
\* ends the loop
PollSleep_OnlyAfterSuccess ==
    /\ phase = "done"
    /\ phase' = "sleep"
    /\ \E d \in sleepWithJitter(config.pollIntervalMs) :
          proc' = [proc EXCEPT !.sleepFor = config.pollIntervalMs,
                               !.sleepMs = d,
                               !.sleeps = @ + 1,
                               !.failedCycles = 0]
    /\ UNCHANGED <<fleet, config, leaseResp, target, events, delivery, reports,
                   reportFailures, cin, cout, store>>

\* mutant: the poll sleep does not wait for the batch to complete
PollSleep_WhileDelivering ==
    /\ phase \in {"done", "failed", "deliver"}
    /\ phase' = "sleep"
    /\ \E d \in sleepWithJitter(config.pollIntervalMs) :
          proc' = [proc EXCEPT !.sleepFor = config.pollIntervalMs,
                               !.sleepMs = d,
                               !.sleeps = @ + 1,
                               !.failedCycles = IF phase = "failed" THEN @ + 1 ELSE 0]
    /\ UNCHANGED <<fleet, config, leaseResp, target, events, delivery, reports,
                   reportFailures, cin, cout, store>>

\* runDispatcher: the cycle has ended (a failure is caught and logged) and
\* sleepWithJitter(config.pollIntervalMs) starts
PollSleep ==
    /\ phase \in {"done", "failed"}
    /\ phase' = "sleep"
    /\ \E d \in sleepWithJitter(config.pollIntervalMs) :
          proc' = [proc EXCEPT !.sleepFor = config.pollIntervalMs,
                               !.sleepMs = d,
                               !.sleeps = @ + 1,
                               !.failedCycles = IF phase = "failed" THEN @ + 1 ELSE 0]
    /\ UNCHANGED <<fleet, config, leaseResp, target, events, delivery, reports,
                   reportFailures, cin, cout, store>>

\* Effect.forever: the sleep has elapsed, the next runDispatcherOnce issues
\* its store.lease
SleepDone ==
    /\ phase = "sleep"
    /\ proc.leaseCalls < MaxLeaseCalls
    /\ phase' = "lease"
    /\ leaseResp' \in LoopLeaseAnswers
    /\ events' = <<>>
    /\ delivery' = <<>>
    /\ proc' = [proc EXCEPT !.leaseCalls = @ + 1, !.sleepMs = 0,
                             !.failure = Null]
    /\ UNCHANGED <<fleet, config, target, reports, reportFailures, cin, cout, store>>

\* mutant: the signal is logged but the dispatcher fiber is not interrupted
Signal_LogsOnly ==
    /\ proc.state = "running"
    /\ phase \in {"lease", "deliver", "sleep"}
    /\ proc' = [proc EXCEPT !.state = "interrupting", !.signalAt = phase,
                            !.signals = 1]
    /\ UNCHANGED <<fleet, config, leaseResp, target, phase, events, delivery, reports,
                   reportFailures, cin, cout, store>>

\* main.ts: SIGINT or SIGTERM resumes awaitSignal, the handler logs and
\* interrupts the dispatcher fiber, which stops at its suspension point
Signal ==
    /\ proc.state = "running"
    /\ phase \in {"lease", "deliver", "sleep"}
    /\ phase' = "interrupted"
    /\ proc' = [proc EXCEPT !.state = "interrupting", !.signalAt = phase,
                            !.signals = 1]
    /\ UNCHANGED <<fleet, config, leaseResp, target, events, delivery, reports,
                   reportFailures, cin, cout, store>>

\* main.ts: a further SIGINT or SIGTERM while the interrupt is under way; the
\* process.once listeners of awaitSignal have been used up and nothing in the
\* program reacts to it
SecondSignal ==
    /\ proc.state = "interrupting"
    /\ proc.signals = 1
    /\ proc' = [proc EXCEPT !.signals = @ + 1]
    /\ UNCHANGED <<fleet, config, leaseResp, target, phase, events, delivery, reports,
                   reportFailures, cin, cout, store>>

\* time passes while Fiber.interrupt waits for the dispatcher fiber to end
Tick ==
    /\ proc.state = "interrupting"
    /\ proc.sinceSignal < MaxTicks * config.requestTimeoutMs
    /\ proc' = [proc EXCEPT !.sinceSignal = @ + config.requestTimeoutMs]
    /\ UNCHANGED <<fleet, config, leaseResp, target, phase, events, delivery, reports,
                   reportFailures, cin, cout, store>>

\* the dispatcher fiber has ended: Fiber.interrupt returns, the program
\* completes and runMain ends the process
Exit ==
    /\ proc.state = "interrupting"
    /\ proc' = [proc EXCEPT !.state = "exited", !.exitCode = 0]
    /\ UNCHANGED <<fleet, config, leaseResp, target, phase, events, delivery, reports,
                   reportFailures, cin, cout, store>>

NextLoop ==
    \/ Lease
    \/ \E i \in Events : StartDelivery(i)
    \/ \E i \in Events : \E r \in target : Attempt(i, r)
    \/ \E i \in Events : BackoffDone(i)
    \/ \E i \in Events : \E res \in ReportAnswers : ReportReturn(i, res)
    \/ BatchComplete
    \/ PollSleep
    \/ SleepDone
    \/ Signal
    \/ SecondSignal
    \/ Tick
    \/ Exit

SpecLoop == InitLoop /\ [][NextLoop]_vars

----------------------------------------------------------------------------
(* The poll sleep for every poll interval *)

InitPollSleep ==
    /\ \E c \in Configs : \E p \in 0..MaxPollMs :
          /\ c.concurrency = 1 /\ c.immediateRetryMax = 0 /\ c.maxAttempts = 1
          /\ config = [c EXCEPT !.pollIntervalMs = p]
    /\ target = {}
    /\ leaseResp \in {LeaseOk(<<>>), LeaseFail("NetworkError")}
    /\ phase = "lease"
    /\ events = <<>>
    /\ delivery = <<>>
    /\ reports = <<>>
    /\ reportFailures = {}
    /\ cin = 0
    /\ cout = NoClass
    /\ fleet = NoFleet
    /\ proc = NewProc("running")
    /\ store = NoStore

NextPollSleep ==
    \/ Lease
    \/ PollSleep

SpecPollSleep == InitPollSleep /\ [][NextPollSleep]_vars

----------------------------------------------------------------------------
(* DispatcherConfigLive: the configuration is loaded from the environment *)

\* an environment variable that is not set
Unset == "<unset>"

\* the texts an integer variable is set to
IntegerTexts == {"-1", "0", "1", "2"}
EnvTexts == IntegerTexts \cup {"nope"}

\* the integer a text of IntegerTexts denotes
integerOf(text) ==
    CASE text = "-1" -> 0 - 1
      [] text = "0" -> 0
      [] text = "1" -> 1
      [] text = "2" -> 2

IntegerVars ==
    {"pollIntervalMs", "batchSize", "concurrency", "leaseMs",
     "requestTimeoutMs", "immediateRetryMax", "maxAttempts"}

StringVars == {"workerId", "internalApiBaseUrl", "internalApiToken"}

\* the default of Config.withDefault for each integer variable
DefaultOf(v) ==
    CASE v = "pollIntervalMs" -> PollIntervalMs
      [] v = "batchSize" -> DefaultBatchSize
      [] v = "concurrency" -> DefaultConcurrency
      [] v = "leaseMs" -> DefaultLeaseMs
      [] v = "requestTimeoutMs" -> DefaultRequestTimeoutMs
      [] v = "immediateRetryMax" -> DefaultImmediateRetryMax
      [] v = "maxAttempts" -> DefaultMaxAttempts

\* Config.integer(name).pipe(Config.withDefault(d)): the default when the
\* variable is missing, the integer when its text is one, a ConfigError
\* otherwise
ConfigInteger(text, default) ==
    IF text = Unset THEN [ok |-> TRUE, value |-> default]
    ELSE IF text \in IntegerTexts THEN [ok |-> TRUE, value |-> integerOf(text)]
    ELSE [ok |-> FALSE, value |-> 0]

\* Config.string(name): a ConfigError when the variable is missing
ConfigString(text) == text # Unset

\* Config.all: every property loads
configFromEnv(env) ==
    /\ ConfigString(env["workerId"])
    /\ ConfigString(env["internalApiBaseUrl"])
    /\ \A v \in IntegerVars : ConfigInteger(env[v], DefaultOf(v)).ok

\* the DispatcherConfigService built from a loaded environment
DispatcherConfigLive(env) ==
    [workerId |-> env["workerId"],
     internalApiBaseUrl |-> env["internalApiBaseUrl"],
     internalApiToken |->
        IF env["internalApiToken"] = Unset THEN Null ELSE env["internalApiToken"],
     pollIntervalMs |-> ConfigInteger(env["pollIntervalMs"], PollIntervalMs).value,
     batchSize |-> ConfigInteger(env["batchSize"], DefaultBatchSize).value,
     concurrency |-> ConfigInteger(env["concurrency"], DefaultConcurrency).value,
     leaseMs |-> ConfigInteger(env["leaseMs"], DefaultLeaseMs).value,
     requestTimeoutMs |->
        ConfigInteger(env["requestTimeoutMs"], DefaultRequestTimeoutMs).value,
     immediateRetryMax |->
        ConfigInteger(env["immediateRetryMax"], DefaultImmediateRetryMax).value,
     maxAttempts |-> ConfigInteger(env["maxAttempts"], DefaultMaxAttempts).value]

\* no configuration has been built yet
NoConfig == [workerId |-> Unset]

\* the environments of the process: the strings set or missing, at most two
\* of the integer variables set
Envs ==
    {[v \in IntegerVars \cup StringVars |->
         IF v = "workerId" THEN w
         ELSE IF v = "internalApiBaseUrl" THEN u
         ELSE IF v = "internalApiToken" THEN t
         ELSE IF v = a THEN x
         ELSE IF v = b THEN y
         ELSE Unset] :
       w \in {Unset, "w1"}, u \in {Unset, "https://internal.example.test"},
       t \in {Unset, "secret-token"},
       a \in IntegerVars, b \in IntegerVars,
       x \in EnvTexts \cup {Unset}, y \in EnvTexts \cup {Unset}}

InitConfig ==
    /\ config = NoConfig
    /\ leaseResp = LeaseOk(<<>>)
    /\ target = {}
    /\ phase = "startup"
    /\ events = <<>>
    /\ delivery = <<>>
    /\ reports = <<>>
    /\ reportFailures = {}
    /\ cin = 0
    /\ cout = NoClass
    /\ fleet = NoFleet
    /\ \E e \in Envs : proc = [NewProc("starting") EXCEPT !.env = e]
    /\ store = NoStore

\* the layer is built: the program fails at startup with the ConfigError, or
\* the configuration is handed to the dispatcher
LoadConfig ==
    /\ phase = "startup"
    /\ IF configFromEnv(proc.env)
       THEN /\ config' = DispatcherConfigLive(proc.env)
            /\ phase' = "lease"
            /\ proc' = [proc EXCEPT !.state = "running"]
       ELSE /\ phase' = "failed"
            /\ proc' = [proc EXCEPT !.state = "exited", !.failure = "ConfigError",
                                    !.exitCode = 1]
            /\ UNCHANGED config
    /\ UNCHANGED <<fleet, leaseResp, target, events, delivery, reports,
                   reportFailures, cin, cout, store>>

NextConfig == LoadConfig

SpecConfig == InitConfig /\ [][NextConfig]_vars

----------------------------------------------------------------------------
(* Runs that are not cancelled, under the scheduling of the Effect runtime *)

\* what the target does in a run: it never responds, or it may also answer
LiveTargets == {{Never}, {Response(200), Never}, {Response(500), RequestError}}

InitLive ==
    /\ config \in {c \in Configs : c.immediateRetryMax = 1
                                    /\ c.maxAttempts = MaxAttemptsBound}
    /\ target \in LiveTargets
    /\ \/ leaseResp = LeaseFail("NetworkError")
       \/ \E n \in 0..MaxBatch :
              leaseResp = LeaseOk(MakeEvents([i \in 1..n |-> 0], n))
    /\ InitIdle

NextLive ==
    \/ Lease
    \/ \E i \in Events : StartDelivery(i)
    \/ \E i \in Events : \E r \in target : Attempt(i, r)
    \/ \E i \in Events : BackoffDone(i)
    \/ \E i \in Events : \E res \in ReportAnswers : ReportReturn(i, res)
    \/ BatchComplete

\* a runnable fiber is run, a target call ends (timeoutFail at the latest), a
\* backoff sleep elapses and the report call returns
SpecLive == InitLive /\ [][NextLive]_vars /\ WF_vars(NextLive)

----------------------------------------------------------------------------
(* Timed run: one delivery under the clock *)

ClockStepMs == RequestTimeoutMs \div 2

TimedResults == {Response(200), Response(500), Never}

InitTimed ==
    /\ config \in {c \in Configs : c.concurrency = 1 /\ c.immediateRetryMax = 1
                                    /\ c.maxAttempts = MaxAttemptsBound}
    /\ target = TimedResults
    /\ leaseResp = LeaseOk(MakeEvents([i \in 1..1 |-> 0], 1))
    /\ phase = "lease"
    /\ events = <<>>
    /\ delivery = <<>>
    /\ reports = <<>>
    /\ reportFailures = {}
    /\ cin = 0
    /\ cout = NoClass
    /\ fleet = NoFleet
    /\ proc = NewProc("timed")
    /\ store = NoStore

\* time passes; a call in flight is ended by its timeout before the clock
\* moves past it
ClockTick ==
    /\ Timed
    /\ proc.now < MaxClockTicks * ClockStepMs
    /\ \A i \in Events :
          delivery[i].pc = "executing" =>
              proc.now - delivery[i].callAt < config.requestTimeoutMs
    /\ proc' = [proc EXCEPT !.now = @ + ClockStepMs]
    /\ UNCHANGED <<fleet, config, leaseResp, target, phase, events, delivery, reports,
                   reportFailures, cin, cout, store>>

NextTimed ==
    \/ Lease
    \/ \E i \in Events : StartDelivery(i)
    \/ \E i \in Events : \E r \in target : Attempt(i, r)
    \/ \E i \in Events : BackoffDone(i)
    \/ \E i \in Events : \E res \in ReportAnswers : ReportReturn(i, res)
    \/ BatchComplete
    \/ ClockTick

SpecTimed == InitTimed /\ [][NextTimed]_vars

----------------------------------------------------------------------------
(* Several workers sharing one store, on one event *)

Workers == {"w1", "w2"}

\* lease durations: shorter than one target call, and longer than one call
\* but shorter than a delivery with one retry
LeaseDurations == {ClockStepMs, RequestTimeoutMs + ClockStepMs}

\* a worker that holds no event
IdleWorker ==
    [pc |-> "idle", recurs |-> 0, callAt |-> 0, waitUntil |-> 0,
     leaseExpiresAt |-> 0, outcome |-> Null]

\* the store leases the event only when it is not settled and holds no
\* unexpired lease
storeGrantsLease(f) ==
    /\ ~f.settled
    /\ f.holder = Null \/ f.now >= f.expiresAt

InitFleet ==
    /\ \E c \in Configs : \E l \in LeaseDurations :
          /\ c.concurrency = 1 /\ c.immediateRetryMax \in {0, 1}
          /\ c.maxAttempts = MaxAttemptsBound
          /\ config = [c EXCEPT !.leaseMs = l]
    /\ target = TimedResults
    /\ leaseResp = LeaseOk(<<>>)
    /\ phase = "fleet"
    /\ events = <<>>
    /\ delivery = <<>>
    /\ reports = <<>>
    /\ reportFailures = {}
    /\ cin = 0
    /\ cout = NoClass
    /\ proc = NewProc("fleet")
    /\ store = NoStore
    /\ fleet = [NoFleet EXCEPT !.workers = [w \in Workers |-> IdleWorker]]

\* runDispatcherOnce of worker w: store.lease(batchSize, leaseMs) returns the
\* event and deliverOne starts its first attempt
FleetLease(w) ==
    /\ phase = "fleet"
    /\ fleet.workers[w].pc = "idle"
    /\ storeGrantsLease(fleet)
    /\ fleet' = [fleet EXCEPT
          !.holder = w,
          !.expiresAt = fleet.now + config.leaseMs,
          !.workers[w] = [IdleWorker EXCEPT
                !.pc = "executing", !.callAt = fleet.now,
                !.leaseExpiresAt = fleet.now + config.leaseMs]]
    /\ UNCHANGED <<config, leaseResp, target, phase, events, delivery, reports,
                   reportFailures, cin, cout, proc, store>>

\* deliverOne of worker w: one executeOnce completes with r; the retry
\* schedule decides; the lease expiry is not looked at
FleetAttempt(w, r) ==
    /\ phase = "fleet"
    /\ fleet.workers[w].pc = "executing"
    /\ timeoutFail(r, fleet.now - fleet.workers[w].callAt, config.requestTimeoutMs)
    /\ LET out == executeOnce(r)
           me == fleet.workers[w]
       IN IF ~out.ok /\ retrySchedule(me.recurs, out, config.immediateRetryMax)
          THEN \E d \in retryDelays(me.recurs + 1) :
                  fleet' = [fleet EXCEPT !.workers[w] =
                      [me EXCEPT !.pc = "backoff", !.recurs = @ + 1,
                                 !.waitUntil = fleet.now + d]]
          ELSE fleet' = [fleet EXCEPT !.workers[w] =
                      [me EXCEPT !.pc = "reporting",
                                 !.outcome = resolveOutcome(toDeliveryResult(out),
                                                 0, config.maxAttempts)]]
    /\ UNCHANGED <<config, leaseResp, target, phase, events, delivery, reports,
                   reportFailures, cin, cout, proc, store>>

\* the backoff sleep of worker w elapses and the next attempt starts
FleetBackoffDone(w) ==
    /\ phase = "fleet"
    /\ fleet.workers[w].pc = "backoff"
    /\ fleet.now >= fleet.workers[w].waitUntil
    /\ fleet' = [fleet EXCEPT !.workers[w] =
            [@ EXCEPT !.pc = "executing", !.callAt = fleet.now]]
    /\ UNCHANGED <<config, leaseResp, target, phase, events, delivery, reports,
                   reportFailures, cin, cout, proc, store>>

\* store.report of worker w returns: the store ends the lease of w and
\* settles a delivered or dead event; the worker polls again
FleetReport(w) ==
    /\ phase = "fleet"
    /\ fleet.workers[w].pc = "reporting"
    /\ fleet' = [fleet EXCEPT
          !.holder = IF @ = w THEN Null ELSE @,
          !.settled = @ \/ fleet.workers[w].outcome \in {"delivered", "dead"},
          !.workers[w] = IdleWorker]
    /\ UNCHANGED <<config, leaseResp, target, phase, events, delivery, reports,
                   reportFailures, cin, cout, proc, store>>

\* time passes; a call is ended by its timeout and a backoff sleep ends
\* before the clock moves past them
FleetTick ==
    /\ phase = "fleet"
    /\ fleet.now < MaxClockTicks * ClockStepMs
    /\ \A w \in Workers :
          /\ fleet.workers[w].pc = "executing" =>
                fleet.now - fleet.workers[w].callAt < config.requestTimeoutMs
          /\ fleet.workers[w].pc = "backoff" =>
                fleet.now < fleet.workers[w].waitUntil
    /\ fleet' = [fleet EXCEPT !.now = @ + ClockStepMs]
    /\ UNCHANGED <<config, leaseResp, target, phase, events, delivery, reports,
                   reportFailures, cin, cout, proc, store>>

NextFleet ==
    \/ \E w \in Workers : FleetLease(w)
    \/ \E w \in Workers : \E r \in target : FleetAttempt(w, r)
    \/ \E w \in Workers : FleetBackoffDone(w)
    \/ \E w \in Workers : FleetReport(w)
    \/ FleetTick

SpecFleet == InitFleet /\ [][NextFleet]_vars

----------------------------------------------------------------------------
(* StoreClient: one store.lease or store.report call with its transient retry *)

TransientRecurs == 5
TransientBaseMs == 100

ApiErrorCodes ==
    {"validation", "unauthorized", "rate_limited", "not_found", "conflict",
     "database", "internal"}

\* response bodies of the store, by what they decode as
ErrorBody(c) == [shape |-> "error", code |-> c, items |-> <<>>]
LeaseBody == [shape |-> "lease", code |-> Null, items |-> <<>>]
ReportBody == [shape |-> "report", code |-> Null, items |-> <<>>]
GarbageBody == [shape |-> "garbage", code |-> Null, items |-> <<>>]

\* the elements of the events array of a lease body, by what they decode as
EventShapes == {"valid", "missing_field", "wrong_type"}

\* a lease body whose events array holds the given elements
LeaseBodyOf(items) == [shape |-> "lease", code |-> Null, items |-> items]

\* LeasedEventSchema: every required field is present with its type
decodesAsLeasedEvent(item) == item = "valid"

StoreBodies ==
    {ErrorBody(c) : c \in ApiErrorCodes \cup {"teapot"}}
        \cup {LeaseBody, ReportBody, GarbageBody}

StoreStatuses == {200, 399, 400}

\* what client.execute gives for one HTTP request to the store
Transport == [kind |-> "transport", status |-> NullStatus, body |-> NoBody]
HttpReply(s, b) == [kind |-> "response", status |-> s, body |-> b]

StoreReplies ==
    {Transport} \cup {HttpReply(s, b) : s \in StoreStatuses, b \in StoreBodies}

\* schemaBodyJson(ApiErrorResponseSchema): code is one of the literals
decodesAsApiError(body) == body.shape = "error" /\ body.code \in ApiErrorCodes

\* mutant: the elements of the events array are not decoded
decodesAsResponse_ShapeOnly(op, body) == body.shape = op

\* schemaBodyJson(LeaseResponseSchema) for lease, (ReportResponseSchema) for
\* report; LeaseResponseSchema is Schema.Array(LeasedEventSchema)
decodesAsResponse(op, body) ==
    /\ body.shape = op
    /\ \A k \in 1..Len(body.items) : decodesAsLeasedEvent(body.items[k])

\* mutant: only statuses above 400 are taken as errors
httpCall_Above400(op, reply) ==
    IF reply.kind = "transport" THEN StoreResult("NetworkError", NoBody)
    ELSE IF reply.status > 400
    THEN IF decodesAsApiError(reply.body)
         THEN StoreResult("ApiError", reply.body)
         ELSE StoreResult("ParseError", NoBody)
    ELSE IF decodesAsResponse(op, reply.body)
         THEN StoreResult("ok", reply.body)
         ELSE StoreResult("ParseError", NoBody)

\* lease / report: the result of one HTTP request (the body of a well-typed
\* request always serializes)
httpCall(op, reply) ==
    IF reply.kind = "transport" THEN StoreResult("NetworkError", NoBody)
    ELSE IF reply.status >= 400
    THEN IF decodesAsApiError(reply.body)
         THEN StoreResult("ApiError", reply.body)
         ELSE StoreResult("ParseError", NoBody)
    ELSE IF decodesAsResponse(op, reply.body)
         THEN StoreResult("ok", reply.body)
         ELSE StoreResult("ParseError", NoBody)

isTransientApiError(err) ==
    \/ err.body.code = "rate_limited"
    \/ err.body.code = "database"
    \/ err.body.code = "internal"

\* mutant: every failure of the call is retried
retryWhile_AnyError(res) ==
    res.tag # "ok"

\* withTransientRetry: the `while` predicate of Effect.retry
retryWhile(res) ==
    res.tag = "ApiError" /\ isTransientApiError(res)

\* mutant: one recurrence too many
transientApiRetrySchedule_OffByOne(recurs) ==
    [continue |-> recurs <= TransientRecurs,
     delay |-> TransientBaseMs * Pow2(recurs)]

\* exponential(100 ms) intersect recurs(5): after `recurs` recurrences, whether
\* one more is granted and the delay before it
transientApiRetrySchedule(recurs) ==
    [continue |-> recurs < TransientRecurs,
     delay |-> TransientBaseMs * Pow2(recurs)]

\* the values of FLUXPOINT_RUST_API_TOKEN: missing, or set
Tokens == {Null, "secret-token"}

\* WebhookStoreLive: the headers set on every request; a header that is not
\* set is Null
baseHeaders(cfg) ==
    [contentType |-> "application/json",
     accept |-> Null,
     authorization |->
        IF cfg.internalApiToken # Null
        THEN [scheme |-> "Bearer", token |-> cfg.internalApiToken]
        ELSE [scheme |-> Null, token |-> Null]]

\* a store call has been issued and its first HTTP request is in flight
InitStore ==
    /\ \E c \in Configs : \E t \in Tokens :
          /\ c.concurrency = 1 /\ c.immediateRetryMax = 0 /\ c.maxAttempts = 1
          /\ config = [c EXCEPT !.internalApiToken = t]
    /\ leaseResp = LeaseOk(<<>>)
    /\ target = {}
    /\ phase = "store"
    /\ events = <<>>
    /\ delivery = <<>>
    /\ reports = <<>>
    /\ reportFailures = {}
    /\ cin = 0
    /\ cout = NoClass
    /\ fleet = NoFleet
    /\ proc = NewProc("once")
    /\ \E op \in {"lease", "report"} :
          store = [NoStore EXCEPT !.op = op, !.pc = "calling", !.requests = 1,
                                  !.sent = <<baseHeaders(config)>>]

\* the HTTP request in flight is answered; the retry policy decides
StoreReply(reply) ==
    /\ phase = "store"
    /\ store.pc = "calling"
    /\ LET res == httpCall(store.op, reply)
           sched == transientApiRetrySchedule(Len(store.waits))
       IN IF retryWhile(res) /\ sched.continue
          THEN store' = [store EXCEPT !.pc = "waiting",
                                      !.replies = Append(@, reply),
                                      !.waits = Append(@, sched.delay)]
          ELSE store' = [store EXCEPT !.pc = "done",
                                      !.replies = Append(@, reply),
                                      !.result = res]
    /\ UNCHANGED <<fleet, config, leaseResp, target, phase, events, delivery, reports,
                   reportFailures, cin, cout, proc>>

\* the delay of the schedule has elapsed: the HTTP request is sent again
StoreRetry ==
    /\ phase = "store"
    /\ store.pc = "waiting"
    /\ store' = [store EXCEPT !.pc = "calling", !.requests = @ + 1,
                               !.sent = Append(@, baseHeaders(config))]
    /\ UNCHANGED <<fleet, config, leaseResp, target, phase, events, delivery, reports,
                   reportFailures, cin, cout, proc>>

NextStore ==
    \/ \E reply \in StoreReplies : StoreReply(reply)
    \/ StoreRetry

SpecStore == InitStore /\ [][NextStore]_vars

----------------------------------------------------------------------------
(* One poll cycle whose lease goes through the store client *)

\* the events arrays of at most MaxBatch elements
LeaseItems ==
    UNION {[1..n -> EventShapes] : n \in 0..MaxBatch}

\* what the store answers to the lease request
DecodeReplies ==
    {HttpReply(200, LeaseBodyOf(items)) : items \in LeaseItems}
        \cup {HttpReply(200, GarbageBody), HttpReply(400, ErrorBody("database"))}

\* runDispatcherOnce: the events of the decoded LeaseResponse, or the error
\* store.lease failed with
toLeaseResp(res) ==
    IF res.tag = "ok"
    THEN LeaseOk(MakeEvents([i \in 1..Len(res.body.items) |-> 0],
                            Len(res.body.items)))
    ELSE LeaseFail(res.tag)

InitDecode ==
    /\ config \in {c \in Configs : c.immediateRetryMax = 1 /\ c.maxAttempts = 1}
    /\ leaseResp = LeaseOk(<<>>)
    /\ target = CoarseResults
    /\ phase = "store"
    /\ events = <<>>
    /\ delivery = <<>>
    /\ reports = <<>>
    /\ reportFailures = {}
    /\ cin = 0
    /\ cout = NoClass
    /\ fleet = NoFleet
    /\ proc = NewProc("once")
    /\ store = [NoStore EXCEPT !.op = "lease", !.pc = "calling", !.requests = 1,
                              !.sent = <<baseHeaders(config)>>]

\* store.lease returns to runDispatcherOnce
LeaseReturn ==
    /\ phase = "store"
    /\ store.op = "lease"
    /\ store.pc = "done"
    /\ leaseResp' = toLeaseResp(store.result)
    /\ phase' = "lease"
    /\ UNCHANGED <<fleet, config, target, events, delivery, reports,
                   reportFailures, cin, cout, proc, store>>

NextDecode ==
    \/ \E reply \in DecodeReplies : StoreReply(reply)
    \/ StoreRetry
    \/ LeaseReturn
    \/ Lease
    \/ \E i \in Events : StartDelivery(i)
    \/ \E i \in Events : \E r \in target : Attempt(i, r)
    \/ \E i \in Events : BackoffDone(i)
    \/ \E i \in Events : \E res \in ReportAnswers : ReportReturn(i, res)
    \/ BatchComplete

SpecDecode == InitDecode /\ [][NextDecode]_vars

----------------------------------------------------------------------------
(* Properties of the reports *)

Reports == {reports[k] : k \in 1..Len(reports)}

\* the deliveries whose retry sequence has ended (their report was submitted)
Ended == {i \in Events : delivery[i].pc \in {"reporting", "done"}}

ReportsOf(id) == {k \in 1..Len(reports) : reports[k].event_id = id}

\* the report of an ended delivery
ReportOf(i) == reports[CHOOSE k \in 1..Len(reports) : reports[k].event_id = events[i].id]

LastCall(i) == delivery[i].calls[Len(delivery[i].calls)]

RetryableStatuses == {408, 429} \cup 500..599

HardStatuses == 400..499 \ {408, 429}

\* C1: in a run that is not cancelled and whose lease returns the events E,
\* store.report is called exactly once for each event of E and for no other
\* event; before completion no event has more than one report.
C1_OneReportPerEvent ==
    /\ \A k \in 1..Len(reports) :
          \E i \in 1..Len(leaseResp.events) :
              leaseResp.events[i].id = reports[k].event_id
    /\ \A i \in 1..Len(leaseResp.events) :
          Cardinality(ReportsOf(leaseResp.events[i].id)) <= 1
    /\ (phase = "done" /\ leaseResp.ok) =>
          \A i \in 1..Len(leaseResp.events) :
              Cardinality(ReportsOf(leaseResp.events[i].id)) = 1

C1_Witness ==
    /\ phase = "done"
    /\ Len(events) >= 2
    /\ \E a, b \in Reports :
          a.outcome = "delivered" /\ b.attempt.error_kind = "timeout"

\* C2: in every reported attempt record exactly one of response_status and
\* error_kind is non-null.
C2_StatusXorErrorKind ==
    \A r \in Reports :
        (r.attempt.response_status # NullStatus) # (r.attempt.error_kind # Null)

C2_Witness ==
    /\ \E r \in Reports : r.attempt.error_kind = "invalid_response"
    /\ \E i \in Ended : LastCall(i) = ResponseError(404)

\* C3: classifyHttpStatus(s) is delivered iff 200 <= s < 300, retry iff
\* s = 408 or s = 429 or s >= 500, dead otherwise; and isRetryableStatus(s)
\* holds exactly when the classification is retry.
C3_Classification ==
    cout # NoClass =>
        /\ (cout.outcome = "delivered") = (200 <= cin /\ cin < 300)
        /\ (cout.outcome = "retry") = (cin = 408 \/ cin = 429 \/ cin >= 500)
        /\ (cout.outcome = "dead") =
              ~((200 <= cin /\ cin < 300) \/ cin = 408 \/ cin = 429 \/ cin >= 500)
        /\ cout.retryable = (cout.outcome = "retry")

C3_Witness == cout # NoClass /\ cin = 429 /\ cout.outcome = "retry"

\* C4: every report with outcome delivered carries a 2xx response_status and
\* a null error_kind, and the last attempt of its delivery was a 2xx response.
C4_DeliveredIs2xx ==
    \A i \in Ended :
        ReportOf(i).outcome = "delivered" =>
            /\ ReportOf(i).attempt.response_status \in 200..299
            /\ ReportOf(i).attempt.error_kind = Null
            /\ LastCall(i).tag = "Response"
            /\ LastCall(i).status \in 200..299

C4_Witness ==
    \E i \in Ended :
        /\ ReportOf(i).outcome = "delivered"
        /\ Len(delivery[i].calls) >= 2
        /\ ReportOf(i).attempt.response_status = 299

\* C5 as stated: every report with outcome dead has a 4xx status other than
\* 408 and 429, or a non-null error_kind with attempts + 1 >= maxAttempts.
C5_Original ==
    \A i \in Ended :
        ReportOf(i).outcome = "dead" =>
            \/ ReportOf(i).attempt.response_status \in HardStatuses
            \/ /\ ReportOf(i).attempt.error_kind # Null
               /\ events[i].attempts + 1 >= config.maxAttempts

\* C5 amended: every report with outcome dead has a response_status that is
\* neither 2xx nor retryable (a 1xx, a 3xx, or a 4xx other than 408 and 429),
\* or a non-null error_kind with attempts + 1 >= maxAttempts.
C5_DeadIsHardOrCapped ==
    \A i \in Ended :
        ReportOf(i).outcome = "dead" =>
            \/ /\ ReportOf(i).attempt.response_status # NullStatus
               /\ ReportOf(i).attempt.response_status \in
                     (100..199) \cup (300..399) \cup HardStatuses
            \/ /\ ReportOf(i).attempt.error_kind # Null
               /\ events[i].attempts + 1 >= config.maxAttempts

C5_Witness ==
    \E i \in Ended :
        /\ ReportOf(i).outcome = "dead"
        /\ ReportOf(i).attempt.response_status = 304

\* C6 as stated: every report with outcome retry has retryable = true, and
\* its final result is a response with a retryable status or a transport or
\* timeout failure, whatever failure the HTTP client produced.
C6_Original ==
    \A r \in Reports :
        r.outcome = "retry" =>
            /\ r.retryable
            /\ \/ r.attempt.response_status \in RetryableStatuses
               \/ r.attempt.error_kind \in {"timeout", "network", "invalid_response"}

\* C7 as stated: retryable is true iff error_kind is timeout, network or
\* invalid_response, or response_status is 408, 429 or 5xx.
C7_Original ==
    \A r \in Reports :
        r.retryable =
            \/ r.attempt.error_kind \in {"timeout", "network", "invalid_response"}
            \/ r.attempt.response_status \in RetryableStatuses

TimeoutAtCap(i) ==
    /\ delivery[i].calls = <<Never>>
    /\ events[i].attempts = 2
    /\ config.maxAttempts = 3

AllRetryableStatus(i) ==
    \A k \in 1..Len(delivery[i].calls) :
        /\ delivery[i].calls[k].tag = "Response"
        /\ delivery[i].calls[k].status \in RetryableStatuses

\* C10: a delivery makes at most immediateRetryMax + 1 target calls; exactly
\* that many when every call returned a retryable status; exactly one when
\* immediateRetryMax = 0.
C10_BoundedAttempts ==
    \A i \in Events :
        /\ Len(delivery[i].calls) <= config.immediateRetryMax + 1
        /\ (i \in Ended /\ AllRetryableStatus(i)) =>
              Len(delivery[i].calls) = config.immediateRetryMax + 1
        /\ (i \in Ended /\ config.immediateRetryMax = 0) =>
              Len(delivery[i].calls) = 1

C10_Witness ==
    \E i \in Ended :
        /\ AllRetryableStatus(i)
        /\ config.immediateRetryMax >= 2
        /\ Len(delivery[i].calls) = config.immediateRetryMax + 1

IsHardResponse(r) == r.tag = "Response" /\ ~(r.status \in RetryableStatuses)

\* C11: a response with a non-retryable status ends the retry sequence: it
\* is the last call of its delivery, the delivery has ended, and it is the
\* reported result (500, 500, 200: 3 calls, delivered, 200; 404: 1 call,
\* dead, retryable = false).
C11_StopsAtFirstFinalResponse ==
    \A i \in Events :
        /\ \A k \in 1..Len(delivery[i].calls) :
              IsHardResponse(delivery[i].calls[k]) =>
                  /\ k = Len(delivery[i].calls)
                  /\ i \in Ended
                  /\ ReportOf(i).attempt.response_status = delivery[i].calls[k].status
                  /\ ReportOf(i).attempt.error_kind = Null
        /\ (Len(delivery[i].calls) >= 1 /\ delivery[i].calls[1] = Response(404)) =>
              /\ Len(delivery[i].calls) = 1
              /\ ReportOf(i).outcome = "dead"
              /\ ~ReportOf(i).retryable
        /\ (Len(delivery[i].calls) >= 3
              /\ SubSeq(delivery[i].calls, 1, 3)
                    = <<Response(500), Response(500), Response(200)>>) =>
              /\ Len(delivery[i].calls) = 3
              /\ ReportOf(i).outcome = "delivered"
              /\ ReportOf(i).attempt.response_status = 200

C11_Witness ==
    \E i \in Ended :
        /\ delivery[i].calls = <<Response(500), Response(500), Response(200)>>
        /\ ReportOf(i).outcome = "delivered"

\* C12 as stated: no failure ends the retry sequence early: a delivery whose
\* last attempt failed (timeout, transport error, invalid response) has made
\* all immediateRetryMax retries.
C12_Original ==
    \A i \in Ended :
        LastCall(i).tag \in {"Never", "RequestError", "ResponseError"} =>
            Len(delivery[i].calls) = config.immediateRetryMax + 1

\* C13: the report describes the last attempt of the delivery: its status
\* with a null error_kind when it was a response (a retryable status too),
\* its error kind with a null status when it was a failure.
C13_ReportsLastAttempt ==
    \A i \in Ended :
        /\ LastCall(i).tag = "Response" =>
              /\ ReportOf(i).attempt.response_status = LastCall(i).status
              /\ ReportOf(i).attempt.error_kind = Null
              /\ ReportOf(i).outcome = classifyHttpStatus(LastCall(i).status)
        /\ LastCall(i).tag # "Response" =>
              /\ ReportOf(i).attempt.response_status = NullStatus
              /\ ReportOf(i).attempt.error_kind =
                    (IF LastCall(i).tag = "Never" THEN "timeout"
                     ELSE IF LastCall(i).tag = "RequestError" THEN "network"
                     ELSE "invalid_response")

C13_Witness ==
    \E i \in Ended :
        /\ Len(delivery[i].calls) = 2
        /\ delivery[i].calls[1] = Never
        /\ delivery[i].calls[2] = Response(500)
        /\ ReportOf(i).attempt.response_status = 500

\* C14: a failing store.report is swallowed: the run never fails because of
\* it, the delivery is done and is neither retried nor reported again, and a
\* completed run has processed and reported every event of the batch.
C14_ReportFailureSwallowed ==
    /\ reportFailures # {} => phase # "failed"
    /\ \A i \in Events :
          events[i].id \in reportFailures =>
              /\ delivery[i].pc = "done"
              /\ Cardinality(ReportsOf(events[i].id)) = 1
    /\ phase = "done" =>
          \A i \in Events :
              delivery[i].pc = "done" /\ Cardinality(ReportsOf(events[i].id)) = 1

C14_Witness ==
    /\ phase = "done"
    /\ Len(events) >= 2
    /\ Cardinality(reportFailures) = 1
    /\ \A i \in Events : Len(delivery[i].calls) >= 1

\* C16: the number of deliveries in progress never exceeds config.concurrency.
C16_BoundedConcurrency ==
    Cardinality(InFlight) <= config.concurrency

\* two deliveries of different events are in flight at the same time
C16_Witness ==
    /\ Len(events) >= 2
    /\ config.concurrency >= 2
    /\ \E i, j \in Events :
          i # j /\ delivery[i].pc = "executing" /\ delivery[j].pc = "executing"

\* one more step of the batch: a delivery starts or advances, or the batch joins
BatchStep ==
    \/ \E i \in Events : StartDelivery(i)
    \/ \E i \in Events : \E r \in target : Attempt(i, r)
    \/ \E i \in Events : BackoffDone(i)
    \/ \E i \in Events : \E res \in ReportAnswers : ReportReturn(i, res)
    \/ BatchComplete

\* C17: no delivery result aborts the batch: a run fails only in its lease,
\* a batch under way can always take its next step, whatever the other
\* deliveries ended with, and a completed batch has attempted and reported
\* every event.
C17_BatchNeverAborted ==
    /\ phase = "failed" => (~leaseResp.ok /\ events = <<>>)
    /\ phase = "deliver" => ENABLED BatchStep
    /\ phase = "done" =>
          \A i \in Events :
              /\ Len(delivery[i].calls) >= 1
              /\ Cardinality(ReportsOf(events[i].id)) = 1

C17_Witness ==
    /\ phase = "done"
    /\ Len(events) >= 2
    /\ ReportOf(1).attempt.error_kind = "timeout"
    /\ events[1].id \in reportFailures
    /\ ReportOf(2).outcome = "delivered"

\* C18 as stated: a delivery cancelled at a target call, a backoff sleep or
\* a report call has submitted no report for its event.
C18_Original ==
    phase = "interrupted" =>
        \A i \in Events :
            delivery[i].pc \in {"executing", "backoff", "reporting"} =>
                ReportsOf(events[i].id) = {}

\* C18 amended: after cancellation no delivery makes a further target attempt
\* or submits a further report; a delivery cancelled at a target call or a
\* backoff sleep has submitted no report, while one cancelled at its report
\* call had already handed its report to store.report.
C18_CancelledStops ==
    [][/\ phase = "interrupted" => (delivery' = delivery /\ reports' = reports)
       /\ phase' = "interrupted" =>
             \A i \in 1..Len(events') :
                 /\ delivery'[i].pc \in {"pending", "executing", "backoff"} =>
                       \A k \in 1..Len(reports') :
                           reports'[k].event_id # events'[i].id
                 /\ delivery'[i].pc = "reporting" =>
                       \E k \in 1..Len(reports') :
                           reports'[k].event_id = events'[i].id]_vars

C18_Witness ==
    /\ phase = "interrupted"
    /\ \E i, j \in Events :
          delivery[i].pc = "backoff" /\ delivery[j].pc = "reporting"

----------------------------------------------------------------------------
(* Properties of the poll loop and of the shutdown *)

Signalled == proc.state \in {"interrupting", "exited"}

\* C15: a poll cycle whose lease fails does not end the loop: the failed
\* cycle goes on to the poll sleep, the sleep is one poll interval whatever
\* the number of consecutive failures, and the sleep is followed by the next
\* lease call.
C15_FailedCycleContinues ==
    /\ phase = "failed" => ENABLED PollSleep
    /\ phase = "sleep" => proc.sleepFor = config.pollIntervalMs
    /\ (phase = "sleep" /\ proc.leaseCalls < MaxLeaseCalls) => ENABLED SleepDone
    /\ proc.failedCycles <= proc.leaseCalls

C15_Witness ==
    /\ phase = "lease"
    /\ proc.state = "running"
    /\ proc.failedCycles >= 2
    /\ proc.leaseCalls = proc.failedCycles + 1

\* C19: once the signal has been received no further lease call is issued,
\* wherever the dispatcher was when it arrived.
C19_NoLeaseAfterSignal ==
    [][Signalled =>
          /\ proc'.leaseCalls = proc.leaseCalls
          /\ phase' = "interrupted"]_vars

C19_Witness ==
    /\ proc.state = "exited"
    /\ proc.signalAt = "sleep"
    /\ proc.leaseCalls >= 2

\* C20 as stated: after the signal the process exits with code 0, at the
\* latest requestTimeoutMs + 1 s after the signal.
C20_Original ==
    /\ proc.state = "exited" => proc.exitCode = 0
    /\ proc.sinceSignal > config.requestTimeoutMs + HardDeadlineExtraMs =>
          proc.state = "exited"

ForcedExitCode == 130

\* C21 as stated: a second signal received during the shutdown makes the
\* process exit at once with code 130, without waiting for the deliveries.
C21_Original ==
    proc.signals >= 2 => (proc.state = "exited" /\ proc.exitCode = ForcedExitCode)

----------------------------------------------------------------------------
(* Properties of the StoreClient *)

TransientCodes == {"rate_limited", "database", "internal"}

IsTransientReply(reply) ==
    /\ reply.kind = "response"
    /\ reply.status >= 400
    /\ reply.body.shape = "error"
    /\ reply.body.code \in TransientCodes

ExpectedWaits == <<100, 200, 400, 800, 1600>>

LastReply == store.replies[Len(store.replies)]

\* C22: a store call that keeps receiving a transient ApiError is retried up
\* to 5 more times, 6 HTTP requests in all, after waits of 100, 200, 400, 800
\* and 1600 ms, and then fails with that ApiError; a request that is answered
\* otherwise ends the call, and a successful retry returns its result with no
\* further request.
C22_TransientRetry ==
    /\ store.requests <= 6
    /\ Len(store.waits) <= 5
    /\ \A k \in 1..Len(store.waits) :
          store.waits[k] = ExpectedWaits[k] /\ IsTransientReply(store.replies[k])
    /\ store.pc = "waiting" =>
          (IsTransientReply(LastReply) /\ ENABLED StoreRetry)
    /\ store.pc = "done" =>
          /\ store.requests = Len(store.waits) + 1
          /\ store.requests = Len(store.replies)
          /\ IsTransientReply(LastReply) =>
                /\ store.requests = 6
                /\ store.waits = ExpectedWaits
                /\ store.result = StoreResult("ApiError", LastReply.body)
          /\ store.result.tag = "ok" =>
                /\ store.result.body = LastReply.body
                /\ ~ENABLED NextStore

C22_Witness ==
    /\ store.pc = "done"
    /\ store.requests = 6
    /\ store.waits = ExpectedWaits
    /\ store.result = StoreResult("ApiError", ErrorBody("database"))

PermanentCodes == {"validation", "unauthorized", "not_found", "conflict"}

\* the reply makes the call fail with NetworkError, with ParseError or with a
\* permanent ApiError
IsNonRetriedReply(op, reply) ==
    \/ reply.kind = "transport"
    \/ /\ reply.kind = "response"
       /\ reply.status >= 400
       /\ \/ reply.body.shape # "error"
          \/ ~(reply.body.code \in TransientCodes)
    \/ /\ reply.kind = "response"
       /\ reply.status < 400
       /\ reply.body.shape # op

NonRetriedTag(reply) ==
    IF reply.kind = "transport" THEN "NetworkError"
    ELSE IF reply.status >= 400 /\ reply.body.shape = "error"
            /\ reply.body.code \in PermanentCodes THEN "ApiError"
    ELSE "ParseError"

----------------------------------------------------------------------------
(* Properties of the report's frame and of time *)

\* C25: every report carries its inputs unchanged: worker_id is
\* config.workerId, event_id the leased event's id, request_headers its
\* headers, request_body its payload, and next_attempt_at is null, whatever
\* the delivery result and the number of retries.
C25_ReportCarriesInputs ==
    \A i \in Ended :
        /\ ReportOf(i).worker_id = config.workerId
        /\ ReportOf(i).event_id = leaseResp.events[i].id
        /\ ReportOf(i).attempt.request_headers = leaseResp.events[i].headers
        /\ ReportOf(i).attempt.request_body = leaseResp.events[i].payload
        /\ ReportOf(i).next_attempt_at = Null

C25_Witness ==
    \E i \in Ended :
        /\ i = 2
        /\ Len(delivery[i].calls) = 3
        /\ ReportOf(i).attempt.error_kind = "timeout"
        /\ ReportOf(i).attempt.request_body = <<"payload", 2>>

\* the waits of the retry schedule before retries 1..n
BackoffSum(n) == RetryBaseMs * (Pow2(n) - 1)

TimeoutsOf(i) ==
    Cardinality({k \in 1..Len(delivery[i].calls) : delivery[i].calls[k] = Never})

\* C26: in every report finished_at >= started_at; started_at is the clock
\* reading before the first attempt and finished_at the reading after the
\* last one, so the window covers the attempts that timed out and the backoff
\* waits of the delivery.
C26_FinishedAfterStarted ==
    /\ \A i \in Events :
          delivery[i].pc # "pending" => delivery[i].startedAt <= delivery[i].callAt
    /\ \A i \in Ended :
          /\ isoLeq(ReportOf(i).attempt.started_at, ReportOf(i).attempt.finished_at)
          /\ ReportOf(i).attempt.started_at = toISO(delivery[i].startedAt)
          /\ ReportOf(i).attempt.finished_at = toISO(delivery[i].endedAt)
          /\ delivery[i].endedAt - delivery[i].startedAt >=
                BackoffSum(delivery[i].recurs)
                    + TimeoutsOf(i) * config.requestTimeoutMs

C26_Witness ==
    \E i \in Ended :
        /\ delivery[i].calls = <<Never, Response(200)>>
        /\ delivery[i].startedAt > 0
        /\ ReportOf(i).attempt.finished_at # ReportOf(i).attempt.started_at

\* C27 as stated: attempt 1 is made without delay, and the wait before retry
\* k is 1000 * 2^(k-1) ms plus a jitter drawn by the rule of the poll sleep.
C27_Original ==
    \A i \in Events :
        /\ (delivery[i].pc = "executing" /\ delivery[i].calls = <<>>) =>
              delivery[i].callAt = delivery[i].startedAt
        /\ delivery[i].pc = "backoff" =>
              retryDelays(delivery[i].recurs) =
                  sleepWithJitter(1000 * Pow2(delivery[i].recurs - 1))

\* C28: the poll sleep lasts an integer number of ms in
\* [p - floor(0.2 p), p + floor(0.2 p)] with p = pollIntervalMs, both ends
\* reachable; it is never negative, and it is exactly p when p < 5.
C28_PollSleepJitter ==
    LET p == config.pollIntervalMs
        r == p \div 5
    IN /\ phase = "sleep" =>
             /\ proc.sleepMs \in (p - r)..(p + r)
             /\ proc.sleepMs >= 0
             /\ p < 5 => proc.sleepMs = p
       /\ phase \in {"done", "failed"} =>
             /\ ENABLED (PollSleep /\ proc'.sleepMs = p - r)
             /\ ENABLED (PollSleep /\ proc'.sleepMs = p + r)

C28_Witness ==
    /\ phase = "sleep"
    /\ config.pollIntervalMs >= 10
    /\ proc.sleepMs = config.pollIntervalMs + config.pollIntervalMs \div 5

\* C29: a target call in flight never outlasts requestTimeoutMs; a call that
\* is not answered by then is a failed attempt of kind timeout with the
\* message "Request timed out", and it is retried like any retryable failure:
\* while retries remain a further attempt follows, otherwise the delivery
\* ends with it.
C29_TimeoutBoundsAttempt ==
    \A i \in Events :
        /\ delivery[i].pc = "executing" =>
              proc.now - delivery[i].callAt <= config.requestTimeoutMs
        /\ \A k \in 1..Len(delivery[i].calls) :
              delivery[i].calls[k] = Never =>
                  IF k <= config.immediateRetryMax
                  THEN \/ k < Len(delivery[i].calls)
                       \/ /\ delivery[i].recurs = k
                          /\ delivery[i].pc \in {"backoff", "executing"}
                  ELSE k = Len(delivery[i].calls) /\ i \in Ended
        /\ (i \in Ended /\ LastCall(i) = Never) =>
              /\ ReportOf(i).attempt.error_kind = "timeout"
              /\ ReportOf(i).attempt.error_message = "Request timed out"
              /\ ReportOf(i).attempt.response_status = NullStatus
              /\ ReportOf(i).retryable

C29_Witness ==
    \E i \in Ended :
        /\ delivery[i].calls = <<Never, Never>>
        /\ ReportOf(i).attempt.error_kind = "timeout"
        /\ delivery[i].endedAt - delivery[i].startedAt >= 3 * config.requestTimeoutMs

\* C30: the attempts of one delivery are strictly sequential: at most one
\* HTTP call to the target is in flight for a leased event, also when an
\* attempt was abandoned by its timeout and a retry follows.
C30_SequentialAttempts ==
    \A i \in Events :
        /\ delivery[i].open <= 1
        /\ (delivery[i].open = 1) = (delivery[i].pc = "executing")

C30_Witness ==
    \E i \in Events :
        /\ delivery[i].pc = "executing"
        /\ delivery[i].calls = <<Never>>
        /\ delivery[i].open = 1

\* C35: when the final result of a delivery is an HTTP response the outcome
\* depends on the status alone: delivered for 2xx, retry for 408, 429 and
\* 5xx even when attempts + 1 >= maxAttempts, dead otherwise; the attempt
\* cap turns an outcome into dead only for a final result that is a failure.
C35_ResponseIgnoresCap ==
    \A i \in Ended :
        /\ LastCall(i).tag = "Response" =>
              ReportOf(i).outcome =
                  (IF LastCall(i).status \in 200..299 THEN "delivered"
                   ELSE IF LastCall(i).status \in RetryableStatuses THEN "retry"
                   ELSE "dead")
        /\ (/\ ReportOf(i).outcome = "dead"
            /\ LastCall(i).tag = "Response")
              => ~(LastCall(i).status \in RetryableStatuses)

C35_Witness ==
    \E i \in Ended :
        /\ LastCall(i) = Response(500)
        /\ events[i].attempts + 1 >= config.maxAttempts
        /\ ReportOf(i).outcome = "retry"

C38_LeaseFailureAndEmptyLease ==
    /\ phase = "failed" =>
          /\ ~leaseResp.ok
          /\ proc.failure = leaseResp.error
          /\ proc.failure \in StoreErrors
    /\ (~leaseResp.ok \/ leaseResp.events = <<>>) =>
          /\ delivery = <<>>
          /\ reports = <<>>
    /\ (/\ phase \notin {"lease", "interrupted"}
        /\ (~leaseResp.ok \/ leaseResp.events = <<>>)) =>
          /\ proc.leaseCalls = 1
          /\ phase = (IF leaseResp.ok THEN "done" ELSE "failed")
          /\ ~ENABLED BatchStep
    /\ ~leaseResp.ok => phase \in {"lease", "failed", "interrupted"}

C38_Witness ==
    /\ phase = "failed"
    /\ proc.failure = "NetworkError"
    /\ reports = <<>>

\* C39: a report with outcome delivered has retryable = false; a report with
\* outcome dead and a response status has retryable = false; retryable =
\* true occurs only with outcome retry or with outcome dead and an error
\* kind.
C39_RetryableFlagConsistent ==
    \A k \in 1..Len(reports) :
        /\ reports[k].outcome = "delivered" => ~reports[k].retryable
        /\ (/\ reports[k].outcome = "dead"
            /\ reports[k].attempt.response_status # NullStatus)
              => ~reports[k].retryable
        /\ reports[k].retryable =>
              \/ reports[k].outcome = "retry"
              \/ /\ reports[k].outcome = "dead"
                 /\ reports[k].attempt.error_kind # Null

C39_Witness ==
    /\ \E k \in 1..Len(reports) :
          /\ reports[k].outcome = "dead"
          /\ reports[k].attempt.response_status = 404
          /\ ~reports[k].retryable
    /\ config.maxAttempts = 1

\* C34: the poll cycles of runDispatcher do not overlap: when the poll sleep
\* starts every delivery of the batch is done and has submitted its report,
\* a lease call finds no delivery in progress, and exactly one poll sleep
\* lies between two consecutive lease calls.
C34_CyclesDoNotOverlap ==
    /\ phase = "sleep" =>
          /\ \A i \in Events :
                delivery[i].pc = "done" /\ ReportsOf(events[i].id) # {}
          /\ proc.sleeps = proc.leaseCalls
    /\ phase \in {"lease", "deliver", "done", "failed"} =>
          proc.sleeps = proc.leaseCalls - 1
    /\ phase = "lease" => delivery = <<>>

C34_Witness ==
    /\ phase = "lease"
    /\ proc.leaseCalls = 2
    /\ proc.sleeps = 1
    /\ Len(reports) >= 1

\* the lease response of the cycle has an events array with an element that
\* misses a required field or has a wrong type
HasInvalidEvent ==
    /\ store.pc = "done"
    /\ LastReply.kind = "response"
    /\ LastReply.status < 400
    /\ LastReply.body.shape = "lease"
    /\ \E k \in 1..Len(LastReply.body.items) :
          LastReply.body.items[k] \in {"missing_field", "wrong_type"}

\* C36: lease decoding is fail-closed for the whole batch: a lease response
\* with an invalid event makes store.lease fail with ParseError, and the
\* cycle makes no target call and no report for any event of the response,
\* the well-formed ones included; a response whose events are all valid
\* yields exactly these events.
C36_LeaseDecodingFailClosed ==
    /\ HasInvalidEvent =>
          /\ store.result.tag = "ParseError"
          /\ phase \in {"store", "lease", "failed"}
          /\ phase # "store" => leaseResp = LeaseFail("ParseError")
          /\ events = <<>>
          /\ delivery = <<>>
          /\ reports = <<>>
    /\ (store.pc = "done" /\ store.result.tag = "ok" /\ phase # "store") =>
          Len(leaseResp.events) = Len(LastReply.body.items)

C36_Witness ==
    /\ HasInvalidEvent
    /\ LastReply.body.items = <<"valid", "missing_field">>
    /\ phase = "failed"
    /\ proc.failure = "ParseError"

ConfigLoaded == proc.state = "running" /\ config # NoConfig

\* C31 as stated: no configuration with a negative integer, or with
\* batchSize, concurrency, leaseMs, requestTimeoutMs or maxAttempts below 1,
\* is handed to the dispatcher (FLUXPOINT_DISPATCH_CONCURRENCY=0 and
\* FLUXPOINT_DISPATCH_BATCH_SIZE=-1 are accepted by the loader).
C31_Original ==
    ConfigLoaded =>
        /\ config.pollIntervalMs >= 0
        /\ config.immediateRetryMax >= 0
        /\ config.batchSize >= 1
        /\ config.concurrency >= 1
        /\ config.leaseMs >= 1
        /\ config.requestTimeoutMs >= 1
        /\ config.maxAttempts >= 1

\* C32 as stated: every lease and report request, each transient retry
\* included, carries Content-Type: application/json and Accept:
\* application/json, and Authorization: Bearer <token> exactly when
\* internalApiToken is set (the requests carry no Accept header).
C32_Original ==
    /\ Len(store.sent) = store.requests
    /\ \A k \in 1..Len(store.sent) :
          /\ store.sent[k].contentType = "application/json"
          /\ store.sent[k].accept = "application/json"
          /\ (store.sent[k].authorization.scheme = "Bearer")
                <=> (config.internalApiToken # Null)
          /\ store.sent[k].authorization.token = config.internalApiToken

\* the workers with a target call in flight for the event
Attempting == {w \in Workers : fleet.workers[w].pc = "executing"}

\* what the spec expects below leaseMs: the longest delivery
deliveryBudget(cfg) ==
    cfg.requestTimeoutMs * (cfg.immediateRetryMax + 1)
        + BackoffSum(cfg.immediateRetryMax)

\* C33 as stated: at every moment at most one worker has an attempt in
\* flight for the event (a worker keeps working past lease_expires_at, so
\* the store leases the event to a second worker meanwhile).
C33_Original ==
    phase = "fleet" => Cardinality(Attempting) <= 1

\* C33: among the workers whose lease on the event has not expired at most
\* one has an attempt in flight; and when the longest delivery,
\* requestTimeoutMs * (immediateRetryMax + 1) + backoff sum, is shorter than
\* leaseMs, at most one worker has an attempt in flight at every moment.
C33_LeaseBoundedExclusion ==
    phase = "fleet" =>
        /\ Cardinality({w \in Attempting :
                           fleet.now < fleet.workers[w].leaseExpiresAt}) <= 1
        /\ deliveryBudget(config) < config.leaseMs =>
              Cardinality(Attempting) <= 1

C33_Witness ==
    /\ phase = "fleet"
    /\ Attempting = Workers
    /\ fleet.holder = "w2"
    /\ fleet.now >= fleet.workers["w1"].leaseExpiresAt
    /\ fleet.now < fleet.workers["w2"].leaseExpiresAt

====
